---- MODULE Spec2Model ----
(***************************************************************************)
(* pipe-ai: a command-line tool that pipes text into a pluggable AI        *)
(* provider.  The module models the file resolver (lib/utils.js), the      *)
(* provider dispatcher and the prompt composer (pipe-ai-api.js) and the    *)
(* main sequence (pipe-ai.js).                                             *)
(*                                                                         *)
(* Texts (file contents, messages, prompts) are sequences of one-character *)
(* strings, so that joining, trimming and emptiness are computed as the    *)
(* JavaScript code computes them.  File names, directories and provider    *)
(* names are TLA+ strings, concatenated with \o.                           *)
(***************************************************************************)
EXTENDS Integers, Sequences, FiniteSets, TLC

VARIABLES
  fs,             \* the file system: path -> [kind, content]
  fileCall,       \* the last direct call of loadFile and its result
  providerCall,   \* the last direct call of getProviderModule and its result
  editorCall,     \* the last direct call of an editor function and its result
  cleanupCall,    \* the last direct call of cleanup: its arguments, the log
                  \* before it and the number of calls so far
  rev,            \* which revision of main runs: "main" composes the prompt
                  \* inline (pipe-ai.js), "getPrompt" calls api.getPrompt,
                  \* "pause" calls getPrompt and pauses process.stdin
  opts,           \* the parsed command line: config, prePrompt, message,
                  \* editor, file
  stdin,          \* process.stdin: isTTY and the chunks piped in
  pc,             \* the position of main
  exitCode,       \* the exit code of the process once it has ended (-1 before)
  logged,         \* the error messages written, in order
  configData,     \* main's configData
  providerModule, \* main's providerModule
  providerEffects,\* probes and imports made while resolving the provider
  inputData,      \* main's inputData
  prePrompt,      \* main's prePrompt
  prompt,         \* main's prompt
  fullPrompt,     \* main's fullPrompt
  started,        \* the prompt sources used so far, in order
  editor,         \* the editor session: the child process and its temp file
  lines,          \* the lines captured by the interactive read loop
  acq,            \* how the awaited prompt acquisition settled
  aiCalls,        \* the calls of the provider's getAIResponse, in order
  reply,          \* main's aiReply
  output,         \* what outputResult emitted
  sig,            \* the signal delivered to the process and not yet handled
                  \* (0: none)
  handlers,       \* whether the SIGINT and SIGTERM handlers are attached
  paused,         \* whether process.stdin is paused by main
  stdinRead,      \* whether getInputData read process.stdin
  steps           \* the steps of main that have ended, in order, each with
                  \* whether it succeeded

envVars == <<fs, rev, opts, stdin>>
apiVars == <<fileCall, providerCall, editorCall, cleanupCall>>
procVars == <<pc, exitCode, logged>>
localVars == <<configData, providerModule, providerEffects, inputData,
               prePrompt, prompt, fullPrompt>>
acqVars == <<started, editor, lines, acq>>
ioVars == <<aiCalls, reply, output>>
sysVars == <<sig, handlers, paused>>
obsVars == <<stdinRead, steps>>
mainVars == <<rev, opts, stdin, procVars, localVars, acqVars, ioVars, sysVars,
              obsVars>>

(***************************************************************************)
(* Bounds of the model.                                                    *)
(***************************************************************************)
\* Longest file content the file system of the resolver's calls holds.
MaxContentLen == 1
\* Most lines the interactive read loop receives before end-of-stream.
MaxLines == 2
\* Longest temp file content handed to the editor functions directly.
MaxEditorLen == 3

(***************************************************************************)
(* Texts.                                                                  *)
(***************************************************************************)
NL == "\n"

\* All texts over the characters cs of length at most n.
TextsUpTo(cs, n) == UNION {[1..k -> cs] : k \in 0..n}

\* JavaScript truthiness of a string: '' (and undefined, modelled as the
\* empty text) is falsy.
Truthy(s) == s # <<>>

\* Array.prototype.join(sep): the parts with sep between consecutive ones.
RECURSIVE Join(_, _)
Join(parts, sep) ==
  IF parts = <<>> THEN <<>>
  ELSE IF Len(parts) = 1 THEN parts[1]
  ELSE parts[1] \o sep \o Join(Tail(parts), sep)

\* Array.prototype.filter(Boolean) on an array of strings.
FilterBoolean(parts) == SelectSeq(parts, Truthy)

\* String.prototype.split(sep) for a one-character separator.
RECURSIVE Split(_, _)
Split(s, sep) ==
  IF \A i \in 1..Len(s) : s[i] # sep THEN <<s>>
  ELSE LET k == CHOOSE i \in 1..Len(s) :
                  s[i] = sep /\ \A j \in 1..(i - 1) : s[j] # sep
       IN <<SubSeq(s, 1, k - 1)>> \o Split(SubSeq(s, k + 1, Len(s)), sep)

WhiteSpace == {" ", "\n", "\t"}

\* String.prototype.trim().
RECURSIVE TrimStart(_)
TrimStart(s) ==
  IF s # <<>> /\ s[1] \in WhiteSpace THEN TrimStart(Tail(s)) ELSE s
RECURSIVE TrimEnd(_)
TrimEnd(s) ==
  IF s # <<>> /\ s[Len(s)] \in WhiteSpace
    THEN TrimEnd(SubSeq(s, 1, Len(s) - 1)) ELSE s
Trim(s) == TrimEnd(TrimStart(s))

\* String.prototype.startsWith(c) for a one-character c.
StartsWith(s, c) == s # <<>> /\ s[1] = c

(***************************************************************************)
(* The file system.  A path is <<directory, file name>>; an identifier     *)
(* given on the command line is looked up relative to the working          *)
(* directory.                                                              *)
(***************************************************************************)
Cwd == "."
ProvidersDir == "<install>/providers"

NoPath == <<"", "">>

Absent == [kind |-> "absent", content |-> <<>>]
Directory == [kind |-> "dir", content |-> <<>>]
File(c) == [kind |-> "file", content |-> c]

\* Mutant of isFile: anything that exists counts, a directory included.
isFile_existsOnly(fsys, p) ==
  p \in DOMAIN fsys /\ fsys[p].kind # "absent"

\* fs.existsSync(p) && fs.lstatSync(p).isFile()
isFile(fsys, p) == p \in DOMAIN fsys /\ fsys[p].kind = "file"

\* fs.existsSync(p)
existsSync(fsys, p) == p \in DOMAIN fsys /\ fsys[p].kind # "absent"

\* fs.readFileSync(p, 'utf8')
readFileSync(fsys, p) == fsys[p].content

(***************************************************************************)
(* lib/utils.js: loadFile(identifier, type).                               *)
(***************************************************************************)
FILE_TYPES ==
  [config |-> [userDir |-> "~/.config/pipe-ai",
               installDir |-> "<cwd>/config",
               extension |-> ".yaml"],
   prompt |-> [userDir |-> "~/.config/pipe-ai/prompts",
               installDir |-> "<cwd>/prompts",
               extension |-> ".txt"]]

\* A call that returned a file's content, and a call that threw.  probes
\* lists the paths the call tested with existsSync, in order.
Returned(content, path, probes) ==
  [ok |-> TRUE, content |-> content, path |-> path, message |-> <<>>,
   probes |-> probes]
Thrown(message, probes) ==
  [ok |-> FALSE, content |-> <<>>, path |-> NoPath, message |-> message,
   probes |-> probes]

\* The message text contains the piece s.
Mentions(message, s) == \E i \in 1..Len(message) : message[i] = s

unsupportedTypeMessage(type) ==
  <<"Unsupported file type: '", type,
    "'. Supported types are 'config' and 'prompt'.">>

\* FILE_TYPES is an object literal: FILE_TYPES[type] also finds the
\* properties every object inherits from Object.prototype, which are
\* functions and so truthy, and have no userDir, installDir or extension.
ObjectPrototypeKeys == {"constructor", "toString"}

\* if (!FILE_TYPES[type]) throw ...: whether the test lets the type pass.
hasTypeEntry(type) ==
  type \in DOMAIN FILE_TYPES \/ type \in ObjectPrototypeKeys

\* path.join(undefined, fileName) throws this TypeError.
pathArgumentMessage ==
  <<"The \"path\" argument must be of type string. Received undefined">>

\* Mutant of isDirectFile: the identifier is never tried as a path.
isDirectFile_skipped(fsys, identifier) == FALSE

\* The identifier is itself an existing regular file.
isDirectFile(fsys, identifier) == isFile(fsys, <<Cwd, identifier>>)

\* path.resolve(identifier): the file read when the identifier is a path.
directPath(identifier) == <<Cwd, identifier>>

\* const fileName = `${identifier}${extension}`
fileNameOf(identifier, type) == identifier \o FILE_TYPES[type].extension

\* Mutant of searchDirs: the installation directory is searched first.
searchDirs_installFirst(type) ==
  <<FILE_TYPES[type].installDir, FILE_TYPES[type].userDir>>

\* The search order: user directory first, then installation directory.
searchDirs(type) == <<FILE_TYPES[type].userDir, FILE_TYPES[type].installDir>>

\* for (const dir of searchDirs) { ... break; }: the first directory of dirs
\* that holds fileName as a regular file, or NoPath (filePath stays '').
findInDirs(fsys, dirs, fileName) ==
  LET hits == {i \in 1..Len(dirs) : isFile(fsys, <<dirs[i], fileName>>)}
  IN IF hits = {} THEN NoPath
     ELSE <<dirs[CHOOSE i \in hits : \A j \in hits : i <= j], fileName>>

\* The directories the loop probed before it stopped.
probedInDirs(fsys, dirs, fileName) ==
  LET hits == {i \in 1..Len(dirs) : isFile(fsys, <<dirs[i], fileName>>)}
      last == IF hits = {} THEN Len(dirs)
              ELSE CHOOSE i \in hits : \A j \in hits : i <= j
  IN [i \in 1..last |-> <<dirs[i], fileName>>]

notFoundMessage(identifier, type) ==
  <<"Unable to find the ",
    IF type = "config" THEN "configuration" ELSE "prompt",
    " file \"", identifier, "\".\n",
    "\nSearched the following directories in order:\n",
    "\"", FILE_TYPES[type].userDir, "\"", "\n",
    "\"", FILE_TYPES[type].installDir, "\"">>

\* Mutant of readOrThrow: a file that was not found reads as empty content.
readOrThrow_emptyFallback(fsys, identifier, type, filePath, probes) ==
  IF filePath = NoPath
    THEN Returned(<<>>, NoPath, probes)
    ELSE Returned(readFileSync(fsys, filePath), filePath, probes)

\* if (!filePath) throw ...; return fs.readFileSync(filePath, 'utf8')
readOrThrow(fsys, identifier, type, filePath, probes) ==
  IF filePath = NoPath
    THEN Thrown(notFoundMessage(identifier, type), probes)
    ELSE Returned(readFileSync(fsys, filePath), filePath, probes)

loadFile(fsys, identifier, type) ==
  IF ~hasTypeEntry(type)
    THEN Thrown(unsupportedTypeMessage(type), <<>>)
  ELSE IF isDirectFile(fsys, identifier)
    THEN readOrThrow(fsys, identifier, type, directPath(identifier),
                     <<directPath(identifier)>>)
  ELSE IF type \notin DOMAIN FILE_TYPES
    THEN Thrown(pathArgumentMessage, <<directPath(identifier)>>)
  ELSE readOrThrow(fsys, identifier, type,
                   findInDirs(fsys, searchDirs(type),
                              fileNameOf(identifier, type)),
                   <<directPath(identifier)>>
                     \o probedInDirs(fsys, searchDirs(type),
                                     fileNameOf(identifier, type)))

(***************************************************************************)
(* pipe-ai-api.js: getProviderModule(configData).                          *)
(***************************************************************************)
\* The value of a key the configuration does not hold.
Undefined == "<undefined>"

\* JavaScript truthiness of a configuration value: undefined and '' are falsy.
TruthyName(v) == v \notin {Undefined, ""}

NoModule == "<none>"

providerModulePath(providerName) == <<ProvidersDir, providerName \o ".js">>

\* The result of getProviderModule: the module imported or the error thrown,
\* with the file-system probes and imports it made, in order.
Resolved(module, effects) ==
  [ok |-> TRUE, module |-> module, message |-> <<>>, effects |-> effects]
Rejected(message, effects) ==
  [ok |-> FALSE, module |-> NoModule, message |-> message, effects |-> effects]

Probe(path) == [op |-> "existsSync", path |-> path]
Import(path) == [op |-> "import", path |-> path]

\* Mutant of importProvider: the module is imported without the check that
\* its file exists.
importProvider_unchecked(fsys, providerName) ==
  Resolved(providerName, <<Import(providerModulePath(providerName))>>)

\* if (!fs.existsSync(providerModulePath)) throw ...; return await import(...)
importProvider(fsys, providerName) ==
  IF ~existsSync(fsys, providerModulePath(providerName))
    THEN Rejected(<<"Provider module '", providerName, "' not found.">>,
                  <<Probe(providerModulePath(providerName))>>)
    ELSE Resolved(providerName,
                  <<Probe(providerModulePath(providerName)),
                    Import(providerModulePath(providerName))>>)

\* Mutant of getProviderModule: the module file is probed before the
\* provider name is checked.
getProviderModule_probeFirst(fsys, config) ==
  IF ~TruthyName(config.provider)
    THEN Rejected(<<"Provider not specified in the configuration file.">>,
                  <<Probe(providerModulePath(config.provider))>>)
    ELSE importProvider(fsys, config.provider)

getProviderModule(fsys, config) ==
  IF ~TruthyName(config.provider)
    THEN Rejected(<<"Provider not specified in the configuration file.">>, <<>>)
    ELSE importProvider(fsys, config.provider)


(***************************************************************************)
(* pipe-ai-api.js: loadConfiguration(configOption).  A configuration text  *)
(* is a sequence of lines  key ":" " " value  separated by NL; yaml.load   *)
(* is modelled for the one key the program reads, provider.                *)
(***************************************************************************)
ConfigLine(key, value) == <<key, ":", " ", value>>

\* yaml.load(content): undefined for an empty document; otherwise the
\* mapping, of which the provider is the value of the provider line
\* (undefined without one, null for "provider:" with no value).
yamlLoad(content) ==
  LET docLines == Split(content, NL)
      hits == {i \in 1..Len(docLines) :
                 Len(docLines[i]) >= 2 /\ docLines[i][1] = "provider"
                   /\ docLines[i][2] = ":"}
      last == CHOOSE i \in hits : \A j \in hits : j <= i
  IN [defined |-> content # <<>>,
      provider |-> IF hits = {} \/ Len(docLines[last]) < 4 THEN Undefined
                   ELSE docLines[last][4]]

ConfigLoaded(data) == [ok |-> TRUE, data |-> data, message |-> <<>>]
ConfigFailed(message) ==
  [ok |-> FALSE, data |-> [provider |-> Undefined], message |-> message]

\* if (!data.provider) throw ...; return data
validateConfiguration(parsed) ==
  IF ~parsed.defined
    THEN ConfigFailed(<<"TypeError: Cannot read properties of undefined">>)
  ELSE IF ~TruthyName(parsed.provider)
    THEN ConfigFailed(
           <<"The 'provider' key is missing from the configuration file.">>)
  ELSE ConfigLoaded([provider |-> parsed.provider])

loadConfiguration(fsys, configOption) ==
  LET parsed(file) ==
        IF ~file.ok THEN ConfigFailed(file.message)
        ELSE validateConfiguration(yamlLoad(file.content))
  IN CHOOSE data \in
       {parsed(file) :
          file \in {loadFile(fsys,
                             IF TruthyName(configOption) THEN configOption
                             ELSE "config",
                             "config")}} : TRUE

(***************************************************************************)
(* lib/input.js: getInputData(filePath).                                   *)
(***************************************************************************)
RECURSIVE Concat(_)
Concat(chunks) ==
  IF chunks = <<>> THEN <<>> ELSE chunks[1] \o Concat(Tail(chunks))

\* readStdin: whether the call iterated over process.stdin.
InputRead(data, readStdin) ==
  [ok |-> TRUE, data |-> data, message |-> <<>>, readStdin |-> readStdin]
InputFailed(message) ==
  [ok |-> FALSE, data |-> <<>>, message |-> message, readStdin |-> FALSE]

noInputMessage ==
  <<"No input provided. Please provide input via a file or stdin.">>

\* The branches taken in the other order: standard input before the file.
getInputData_stdinFirst(fsys, filePath, stdinStream) ==
  IF ~stdinStream.isTTY
    THEN InputRead(Concat(stdinStream.chunks), TRUE)
  ELSE IF TruthyName(filePath) /\ isFile(fsys, <<Cwd, filePath>>)
    THEN InputRead(readFileSync(fsys, <<Cwd, filePath>>), FALSE)
  ELSE InputFailed(noInputMessage)

getInputData(fsys, filePath, stdinStream) ==
  IF TruthyName(filePath)
    THEN IF isFile(fsys, <<Cwd, filePath>>)
           THEN InputRead(readFileSync(fsys, <<Cwd, filePath>>), FALSE)
           ELSE InputFailed(<<"ENOENT: no such file or directory, open '",
                              filePath, "'">>)
  ELSE IF ~stdinStream.isTTY
    THEN InputRead(Concat(stdinStream.chunks), TRUE)
  ELSE InputFailed(noInputMessage)

(***************************************************************************)
(* lib/editorPrompt.js: the text an editor session yields.                 *)
(***************************************************************************)
Settled(ok, value, message) ==
  [ok |-> ok, value |-> value, message |-> message]

\* content.split('\n').filter(line => !line.trim().startsWith('#'))
\*   .join('\n').trim()
stripComments(content) ==
  LET keep(line) == ~StartsWith(Trim(line), "#")
  IN Trim(Join(SelectSeq(Split(content, NL), keep), <<NL>>))

\* The read without the test for an empty result.
readTempFile_noEmptyCheck(content) ==
  Settled(TRUE, stripComments(content), <<>>)

readTempFile(content) ==
  IF stripComments(content) = <<>>
    THEN Settled(FALSE, <<>>, <<"No input found in the editor.">>)
    ELSE Settled(TRUE, stripComments(content), <<>>)

\* The 'exit' handler: a non-zero code rejects, otherwise the file is read.
editorExit(code, content) ==
  IF code # 0
    THEN Settled(FALSE, <<>>, <<"Editor exited with code ", ToString(code)>>)
    ELSE readTempFile(content)

\* The 'error' handler.
editorError == Settled(FALSE, <<>>, <<"Failed to launch editor: ", "ENOENT">>)

\* getDefaultEditor of spawnEditorProcess: process.env.GIT_EDITOR ||
\* process.env.VISUAL || process.env.EDITOR || the platform's default.
platformEditor(platform) == IF platform = "win32" THEN "notepad" ELSE "vi"

getDefaultEditor(env, platform) ==
  IF TruthyName(env.GIT_EDITOR) THEN env.GIT_EDITOR
  ELSE IF TruthyName(env.VISUAL) THEN env.VISUAL
  ELSE IF TruthyName(env.EDITOR) THEN env.EDITOR
  ELSE platformEditor(platform)

\* The editor of getPromptFromEditor (lib/input.js): process.env.EDITOR ||
\* the platform's default.
promptEditor(env, platform) ==
  IF TruthyName(env.EDITOR) THEN env.EDITOR ELSE platformEditor(platform)

\* handleEditorProcess: the promise it returns, the handlers that have run
\* and the temp file.  events lists the child's events handled so far,
\* reading tells that the 'exit' handler awaits readTempFile, warnings
\* counts the log.warn calls of deleteTempFile.
Pending == Settled(FALSE, <<>>, <<"pending">>)

Session(content) ==
  [op |-> "handleEditorProcess", content |-> content, events |-> <<>>,
   reading |-> FALSE, settled |-> Pending, tmpFile |-> "exists",
   warnings |-> 0]

\* resolve(...) / reject(...): a promise settles once, later calls are
\* ignored.
settle(session, outcome) ==
  [session EXCEPT !.settled = IF session.settled = Pending THEN outcome
                               ELSE session.settled]

\* deleteTempFile in a handler's finally: the removal, or a warning when
\* tmpFile.cleanup() rejects.
deleteTempFile(session, cleanupFails) ==
  IF cleanupFails
    THEN [session EXCEPT !.warnings = session.warnings + 1]
    ELSE [session EXCEPT !.tmpFile = "deleted"]

\* The 'exit' handler up to its first await: a non-zero code rejects at
\* once, otherwise the handler awaits readTempFile.
onExit(session, code, cleanupFails) ==
  LET seen == [session EXCEPT !.events = Append(session.events,
                                                <<"exit", code>>)]
  IN IF code # 0
       THEN deleteTempFile(
              settle(seen, Settled(FALSE, <<>>,
                       <<"Editor exited with code ", ToString(code)>>)),
              cleanupFails)
       ELSE [seen EXCEPT !.reading = TRUE]

\* The 'exit' handler after readTempFile has ended (with ENOENT when the
\* file was removed meanwhile).
onReadEnd(session, enoent, cleanupFails) ==
  deleteTempFile(
    settle([session EXCEPT !.reading = FALSE],
           IF enoent THEN Settled(FALSE, <<>>, <<"ENOENT">>)
           ELSE readTempFile(session.content)),
    cleanupFails)

\* The 'error' handler.
onError(session, cleanupFails) ==
  deleteTempFile(
    settle([session EXCEPT !.events = Append(session.events,
                                             <<"error", -1>>)],
           editorError),
    cleanupFails)

(***************************************************************************)
(* lib/input.js: getPromptFromEditor, the synchronous editor session.      *)
(***************************************************************************)
\* content.replace(/^#.*$/gm, '').trim(): a line that begins with '#' is
\* emptied (its line break stays); a '#' after leading blanks is no match.
replaceCommentLines(content) ==
  LET ls == Split(content, NL)
      blank(line) == IF StartsWith(line, "#") THEN <<>> ELSE line
  IN Trim(Join([i \in 1..Len(ls) |-> blank(ls[i])], <<NL>>))

\* The promise getPromptFromEditor returns and the temp file it leaves:
\* child.error rejects before the unlink; the exit status of the child is
\* not looked at.
EditorResult(settled, tmpFile) == [settled |-> settled, tmpFile |-> tmpFile]

getPromptFromEditor(childError, content) ==
  IF childError
    THEN EditorResult(
           Settled(FALSE, <<>>, <<"Failed to open the editor: ", "ENOENT">>),
           "exists")
  ELSE IF replaceCommentLines(content) = <<>>
    THEN EditorResult(
           Settled(FALSE, <<>>,
             <<"Prompt is empty. Please provide a valid prompt in the editor.">>),
           "deleted")
  ELSE EditorResult(Settled(TRUE, replaceCommentLines(content), <<>>),
                    "deleted")

\* Mutant of interactiveClose: only the first line is kept.
interactiveClose_firstLine(captured) ==
  IF captured = <<>> \/ Trim(captured[1]) = <<>>
    THEN Settled(FALSE, <<>>,
                 <<"Prompt cannot be empty. Please provide a prompt using the -m option.">>)
    ELSE Settled(TRUE, captured[1], <<>>)

(***************************************************************************)
(* lib/input.js: getInteractiveUserPrompt, the 'close' handler.            *)
(***************************************************************************)
\* const prompt = lines.join('\n'); if (!prompt.trim()) throw ...
interactiveClose(captured) ==
  IF Trim(Join(captured, <<NL>>)) = <<>>
    THEN Settled(FALSE, <<>>,
                 <<"Prompt cannot be empty. Please provide a prompt using the -m option.">>)
    ELSE Settled(TRUE, Join(captured, <<NL>>), <<>>)

(***************************************************************************)
(* The prompt composer, in its two revisions: the inline decision of main  *)
(* (pipe-ai.js) and getPrompt (pipe-ai-api.js), which an earlier main      *)
(* calls.                                                                  *)
(***************************************************************************)
\* pipe-ai.js main: if (useEditor) ... else if (!prePrompt && !promptMessage)
\* ... else prompt = promptMessage ? promptMessage : ''
mainPromptSource(useEditor, promptMessage, prePromptText) ==
  IF useEditor THEN "editor"
  ELSE IF ~Truthy(prePromptText) /\ ~Truthy(promptMessage) THEN "interactive"
  ELSE IF Truthy(promptMessage) THEN "literal"
  ELSE "none"

\* getPrompt step 2: if (promptMessage) prompt += `\n${promptMessage}`
appendMessage(promptText, promptMessage) ==
  IF Truthy(promptMessage) THEN promptText \o <<NL>> \o promptMessage
  ELSE promptText

\* getPrompt step 3: if (!prePrompt && !promptMessage && !useEditor)
needsInteractive(useEditor, promptMessage, prePromptText) ==
  ~Truthy(prePromptText) /\ ~Truthy(promptMessage) /\ ~useEditor

\* pipe-ai.js main: [prePrompt, prompt].join('\n')
joinPrompt(prePromptText, promptText) ==
  Join(<<prePromptText, promptText>>, <<NL>>)

\* The earlier main: [prePrompt, prompt].filter(Boolean).join('\n')
joinNonEmpty(prePromptText, promptText) ==
  Join(FilterBoolean(<<prePromptText, promptText>>), <<NL>>)

(***************************************************************************)
(* Direct calls of the exported functions loadFile and getProviderModule,  *)
(* on every file system over the paths a call can reach.                   *)
(***************************************************************************)
\* The name looked up, and a name no file of the file system carries.
ApiIdentifier == "summarize"
ApiIdentifiers == {ApiIdentifier, "changelog"}
ApiTypes == {"config", "prompt", "speech", "toString"}

\* src/providers holds openai.js and claudeai.js.
ProviderFiles ==
  [p \in {providerModulePath("openai"), providerModulePath("claudeai")}
     |-> File(<<>>)]

ApiSearchPaths ==
  {directPath(ApiIdentifier)}
    \cup {<<FILE_TYPES[t].userDir, fileNameOf(ApiIdentifier, t)>> :
            t \in DOMAIN FILE_TYPES}
    \cup {<<FILE_TYPES[t].installDir, fileNameOf(ApiIdentifier, t)>> :
            t \in DOMAIN FILE_TYPES}

ApiEntries ==
  {Absent, Directory} \cup {File(c) : c \in TextsUpTo({"x"}, MaxContentLen)}

ApiFileSystems == {f @@ ProviderFiles : f \in [ApiSearchPaths -> ApiEntries]}

\* Configurations handed to getProviderModule: no provider key, an empty
\* one, the two providers of the repository and one that has no module.
ApiConfigs ==
  {[provider |-> v] : v \in {Undefined, "", "openai", "claudeai", "gemini"}}

NoFileCall ==
  [op |-> "none", identifier |-> "", type |-> "", res |-> Thrown(<<>>, <<>>)]
NoProviderCall ==
  [op |-> "none", configData |-> [provider |-> Undefined],
   res |-> Rejected(<<>>, <<>>)]

\* The state of main before it runs, and while only the exported functions
\* are called.
(***************************************************************************)
(* pipe-ai-api.js: cleanup(err = null, exitCode = 0).  An err is null, a   *)
(* string or an Error; the result is what is logged and whether            *)
(* process.exit(exitCode) is called.                                       *)
(***************************************************************************)
NoError == [isError |-> FALSE, message |-> <<>>]
StringError(message) == [isError |-> FALSE, message |-> message]
ErrorInstance(message) == [isError |-> TRUE, message |-> message]

\* Mutant of cleanup: the process is ended whatever the exit code.
cleanup_alwaysExits(err, code) ==
  [logged |-> IF err.isError THEN <<err.message>> ELSE <<>>,
   exits |-> TRUE]

\* if (err instanceof Error) log.error(err.message);
\* if (exitCode !== 0) process.exit(exitCode)
cleanup(err, code) ==
  [logged |-> IF err.isError THEN <<err.message>> ELSE <<>>,
   exits |-> code # 0]

NoCleanupCall ==
  [op |-> "none", err |-> NoError, exitCode |-> 0, before |-> <<>>,
   count |-> 0]

NoOptions ==
  [config |-> Undefined, prePrompt |-> Undefined, message |-> <<>>,
   editor |-> FALSE, file |-> Undefined]
NoEditor ==
  [child |-> "none", tmpFile |-> "none", unlink |-> "none", code |-> -1,
   warned |-> FALSE]
NoEditorCall ==
  [op |-> "none", content |-> <<>>,
   res |-> EditorResult(Settled(FALSE, <<>>, <<>>), "none")]
NotSettled == Settled(FALSE, <<>>, <<>>)

MainAt(position) ==
  /\ pc = position
  /\ exitCode = -1
  /\ logged = <<>>
  /\ configData = [provider |-> Undefined]
  /\ providerModule = NoModule
  /\ providerEffects = <<>>
  /\ inputData = <<>>
  /\ prePrompt = <<>>
  /\ prompt = <<>>
  /\ fullPrompt = <<>>
  /\ started = <<>>
  /\ editor = NoEditor
  /\ lines = <<>>
  /\ acq = NotSettled
  /\ aiCalls = <<>>
  /\ reply = <<>>
  /\ output = <<>>
  /\ sig = 0
  /\ handlers = FALSE
  /\ paused = FALSE
  /\ stdinRead = FALSE
  /\ steps = <<>>

InitApi ==
  /\ fs \in ApiFileSystems
  /\ fileCall = NoFileCall
  /\ providerCall = NoProviderCall
  /\ editorCall = NoEditorCall
  /\ cleanupCall = NoCleanupCall
  /\ rev = "main"
  /\ opts = NoOptions
  /\ stdin = [isTTY |-> TRUE, chunks |-> <<>>]
  /\ MainAt("idle")

CallLoadFile(identifier, type) ==
  /\ fileCall' = [op |-> "loadFile", identifier |-> identifier, type |-> type,
                  res |-> loadFile(fs, identifier, type)]
  /\ UNCHANGED <<fs, providerCall, editorCall, cleanupCall, mainVars>>

CallGetProviderModule(config) ==
  /\ providerCall' = [op |-> "getProviderModule", configData |-> config,
                      res |-> getProviderModule(fs, config)]
  /\ UNCHANGED <<fs, fileCall, editorCall, cleanupCall, mainVars>>

NextApi ==
  \/ \E identifier \in ApiIdentifiers, type \in ApiTypes :
       CallLoadFile(identifier, type)
  \/ \E config \in ApiConfigs : CallGetProviderModule(config)

vars == <<fs, fileCall, providerCall, editorCall, cleanupCall, mainVars>>

SpecApi == InitApi /\ [][NextApi]_vars

(***************************************************************************)
(* Direct calls of the editor functions on every content of the temp file  *)
(* up to MaxEditorLen characters.                                          *)
(***************************************************************************)
EditorAlphabet == {"#", " ", "a", NL}
EditorTexts == TextsUpTo(EditorAlphabet, MaxEditorLen)

InitEditor ==
  /\ fs = ProviderFiles
  /\ fileCall = NoFileCall
  /\ providerCall = NoProviderCall
  /\ editorCall = NoEditorCall
  /\ cleanupCall = NoCleanupCall
  /\ rev = "main"
  /\ opts = NoOptions
  /\ stdin = [isTTY |-> TRUE, chunks |-> <<>>]
  /\ MainAt("idle")

\* readTempFile of lib/editorPrompt.js; its caller deletes the temp file.
CallReadTempFile(content) ==
  /\ editorCall' = [op |-> "readTempFile", content |-> content,
                    res |-> EditorResult(readTempFile(content), "deleted")]
  /\ UNCHANGED <<fs, fileCall, providerCall, cleanupCall, mainVars>>

CallGetPromptFromEditor(childError, content) ==
  /\ editorCall' = [op |-> "getPromptFromEditor", content |-> content,
                    res |-> getPromptFromEditor(childError, content)]
  /\ UNCHANGED <<fs, fileCall, providerCall, cleanupCall, mainVars>>

\* The environments an editor is chosen in.
EditorEnvs ==
  [GIT_EDITOR : {Undefined, "git-editor"}, VISUAL : {Undefined, "", "visual"},
   EDITOR : {Undefined, "editor"}]
Platforms == {"win32", "linux"}

CallGetDefaultEditor(env, platform) ==
  /\ editorCall' = [op |-> "getDefaultEditor", env |-> env,
                    platform |-> platform,
                    res |-> getDefaultEditor(env, platform)]
  /\ UNCHANGED <<fs, fileCall, providerCall, cleanupCall, mainVars>>

CallPromptEditor(env, platform) ==
  /\ editorCall' = [op |-> "promptEditor", env |-> env,
                    platform |-> platform,
                    res |-> promptEditor(env, platform)]
  /\ UNCHANGED <<fs, fileCall, providerCall, cleanupCall, mainVars>>

\* What the temp file of a session holds when the editor child ends.
SessionContents == {<<"a">>, <<"#">>}

InSession == editorCall.op = "handleEditorProcess"
Seen(name) ==
  \E i \in 1..Len(editorCall.events) : editorCall.events[i][1] = name

CallHandleEditorProcess(content) ==
  /\ editorCall' = Session(content)
  /\ UNCHANGED <<fs, fileCall, providerCall, cleanupCall, mainVars>>

\* The editor child emits 'exit'.
EmitExit(code, cleanupFails) ==
  /\ InSession
  /\ ~Seen("exit")
  /\ editorCall' = onExit(editorCall, code, cleanupFails)
  /\ UNCHANGED <<fs, fileCall, providerCall, cleanupCall, mainVars>>

\* The editor child emits 'error'.
EmitError(cleanupFails) ==
  /\ InSession
  /\ ~Seen("error")
  /\ editorCall' = onError(editorCall, cleanupFails)
  /\ UNCHANGED <<fs, fileCall, providerCall, cleanupCall, mainVars>>

\* The read the 'exit' handler awaits ends.
ReadEnds(enoent, cleanupFails) ==
  /\ InSession
  /\ editorCall.reading
  /\ enoent => editorCall.tmpFile = "deleted"
  /\ editorCall' = onReadEnd(editorCall, enoent, cleanupFails)
  /\ UNCHANGED <<fs, fileCall, providerCall, cleanupCall, mainVars>>

NextEditor ==
  \/ \E content \in EditorTexts : CallReadTempFile(content)
  \/ \E childError \in BOOLEAN, content \in EditorTexts :
       CallGetPromptFromEditor(childError, content)
  \/ \E env \in EditorEnvs, platform \in Platforms :
       CallGetDefaultEditor(env, platform)
  \/ \E env \in EditorEnvs, platform \in Platforms :
       CallPromptEditor(env, platform)
  \/ \E content \in SessionContents : CallHandleEditorProcess(content)
  \/ \E code \in {0, 2}, cleanupFails \in BOOLEAN :
       EmitExit(code, cleanupFails)
  \/ \E cleanupFails \in BOOLEAN : EmitError(cleanupFails)
  \/ \E enoent \in BOOLEAN, cleanupFails \in BOOLEAN :
       ReadEnds(enoent, cleanupFails)

SpecEditor == InitEditor /\ [][NextEditor]_vars


(***************************************************************************)
(* Claims about the file resolver and the provider dispatcher, checked     *)
(* under SpecApi.                                                          *)
(***************************************************************************)
userPath(identifier, type) ==
  <<FILE_TYPES[type].userDir, fileNameOf(identifier, type)>>
installPath(identifier, type) ==
  <<FILE_TYPES[type].installDir, fileNameOf(identifier, type)>>

LoadFileCalled(type) == fileCall.op = "loadFile" /\ fileCall.type = type

\* C1: when the identifier is not itself an existing regular file and both
\* <userDir>/<identifier><ext> and <installDir>/<identifier><ext> are regular
\* files, loadFile returns the content of the user-directory file, never the
\* install-directory one.
C1_UserDirectoryPrecedence ==
  \A t \in DOMAIN FILE_TYPES :
    ( /\ LoadFileCalled(t)
      /\ ~isFile(fs, <<Cwd, fileCall.identifier>>)
      /\ isFile(fs, userPath(fileCall.identifier, t))
      /\ isFile(fs, installPath(fileCall.identifier, t)) )
    => /\ fileCall.res.ok
       /\ fileCall.res.path = userPath(fileCall.identifier, t)
       /\ fileCall.res.path # installPath(fileCall.identifier, t)
       /\ fileCall.res.content = fs[userPath(fileCall.identifier, t)].content

\* A call found both files, with different contents, and returned.
C1_Witness ==
  \E t \in DOMAIN FILE_TYPES :
    /\ LoadFileCalled(t)
    /\ ~isFile(fs, <<Cwd, fileCall.identifier>>)
    /\ isFile(fs, userPath(fileCall.identifier, t))
    /\ isFile(fs, installPath(fileCall.identifier, t))
    /\ fs[userPath(fileCall.identifier, t)].content
         # fs[installPath(fileCall.identifier, t)].content
    /\ fileCall.res.ok

\* C2: when the identifier is a path to an existing regular file, loadFile
\* returns that file's content for both kinds, whatever the search
\* directories hold, and without appending the kind's extension: the search
\* directories are not even probed.
C2_DirectPathShortCircuit ==
  \A t \in DOMAIN FILE_TYPES :
    (LoadFileCalled(t) /\ isFile(fs, <<Cwd, fileCall.identifier>>))
    => /\ fileCall.res.ok
       /\ fileCall.res.path = <<Cwd, fileCall.identifier>>
       /\ fileCall.res.content = fs[<<Cwd, fileCall.identifier>>].content
       /\ fileCall.res.probes = << <<Cwd, fileCall.identifier>> >>

\* A call read the identifier's own file while the user directory held a
\* like-named file with another content.
C2_Witness ==
  \E t \in DOMAIN FILE_TYPES :
    /\ LoadFileCalled(t)
    /\ isFile(fs, <<Cwd, fileCall.identifier>>)
    /\ isFile(fs, userPath(fileCall.identifier, t))
    /\ fs[userPath(fileCall.identifier, t)].content
         # fs[<<Cwd, fileCall.identifier>>].content
    /\ fileCall.res.ok

\* C3: when neither the identifier nor <userDir>/<identifier><ext> nor
\* <installDir>/<identifier><ext> is a regular file, loadFile throws an error
\* whose message names the user directory and the install directory; it
\* returns nothing, in particular no empty content.
C3_NotFoundNamesBothDirectories ==
  \A t \in DOMAIN FILE_TYPES :
    ( /\ LoadFileCalled(t)
      /\ ~isFile(fs, <<Cwd, fileCall.identifier>>)
      /\ ~isFile(fs, userPath(fileCall.identifier, t))
      /\ ~isFile(fs, installPath(fileCall.identifier, t)) )
    => /\ ~fileCall.res.ok
       /\ Mentions(fileCall.res.message, FILE_TYPES[t].userDir)
       /\ Mentions(fileCall.res.message, FILE_TYPES[t].installDir)
       /\ Mentions(fileCall.res.message, fileCall.identifier)

\* A prompt named "summarize" was looked up and found in neither directory,
\* one of which holds a directory of that name.
C3_Witness ==
  /\ LoadFileCalled("prompt")
  /\ fileCall.identifier = ApiIdentifier
  /\ fs[userPath(ApiIdentifier, "prompt")].kind = "dir"
  /\ fs[installPath(ApiIdentifier, "prompt")].kind = "absent"
  /\ ~isFile(fs, <<Cwd, ApiIdentifier>>)
  /\ ~fileCall.res.ok

\* C9: when the configuration has no provider field or an empty one,
\* getProviderModule throws the missing-provider error having probed no
\* file and imported no module.
C9_MissingProviderBeforeAnyAccess ==
  ( /\ providerCall.op = "getProviderModule"
    /\ providerCall.configData.provider \in {Undefined, ""} )
  => /\ ~providerCall.res.ok
     /\ providerCall.res.message
          = <<"Provider not specified in the configuration file.">>
     /\ providerCall.res.effects = <<>>
     /\ providerCall.res.module = NoModule

\* getProviderModule was called with a configuration whose provider is empty.
C9_Witness ==
  /\ providerCall.op = "getProviderModule"
  /\ providerCall.configData.provider = ""
  /\ ~providerCall.res.ok


(***************************************************************************)
(* The main sequence (main of pipe-ai.js), one invocation of the program.  *)
(***************************************************************************)
Revisions == {"main", "getPrompt", "pause"}

\* os.constants.signals.SIGINT and .SIGTERM.
SIGINT == 2
SIGTERM == 15
Signals == {SIGINT, SIGTERM}

PromptName == "summarize"
InputFile == "input.txt"

OpenAIConfig == ConfigLine("provider", "openai")
GeminiConfig ==
  ConfigLine("apiKey", "x") \o <<NL>> \o ConfigLine("provider", "gemini")
KeyOnlyConfig == ConfigLine("apiKey", "x")

\* The file systems of an invocation: the configuration in the user
\* directory, in the install directory or in neither, a pre-prompt in
\* either prompt directory (one of them empty), and the input file.
MainFileSystems ==
  {(userPath("config", "config") :> uc)
     @@ (installPath("config", "config") :> ic)
     @@ (userPath(PromptName, "prompt") :> up)
     @@ (installPath(PromptName, "prompt") :> ip)
     @@ (directPath(InputFile) :> File(<<"d">>))
     @@ ProviderFiles :
   uc \in {Absent, File(OpenAIConfig), File(GeminiConfig), File(KeyOnlyConfig)},
   ic \in {Absent, File(OpenAIConfig)},
   up \in {Absent, File(<<"s">>)},
   ip \in {Absent, File(<<"t">>), File(<<>>)}}

Messages == {<<>>, <<"h", "i">>, <<"m">>}

Options ==
  [config : {Undefined}, prePrompt : {Undefined, PromptName},
   message : Messages, editor : BOOLEAN, file : {Undefined, InputFile}]

Stdins ==
  {[isTTY |-> TRUE, chunks |-> <<>>],
   [isTTY |-> FALSE, chunks |-> << <<"d">>, <<"e">> >>]}

\* What the temp file holds when the editor exits: the untouched template,
\* text typed above the template, an indented comment, two lines of text.
Template == <<NL, "#", " ", "P">>
EditorContents ==
  {Template, <<"a", "s", "k">> \o Template, <<" ", "#", "n">>,
   <<"e", NL, "f">>}
EditorExitCodes == {0, 2}

\* The lines a user types at the interactive prompt.
TypedLines == {<<>>, <<" ">>, <<"a", "s", "k">>}

Replies == {<<"r">>}

Init ==
  /\ fs \in MainFileSystems
  /\ fileCall = NoFileCall
  /\ providerCall = NoProviderCall
  /\ editorCall = NoEditorCall
  /\ cleanupCall = NoCleanupCall
  /\ rev \in Revisions
  /\ opts \in Options
  /\ stdin \in Stdins
  /\ MainAt("boot")

\* The process has not ended.
Running == pc \notin {"idle", "exited", "done", "killed"}

\* Whether main, at its position, is about to wait for an event (an import,
\* a read, the editor child, the read loop, the provider's reply, the end of
\* the event loop): that is where a delivered signal gets its handler run.
\* The code between two waits runs to its end first; a step that throws
\* before it waits reaches main's catch in the same run.
AtTurn ==
  CASE pc = "config" -> getProviderModule(fs, configData).ok
    [] pc = "provider" -> TruthyName(opts.file) \/ ~stdin.isTTY
    [] pc \in {"editor", "interactive", "awaitReply", "output"} -> TRUE
    [] OTHER -> FALSE

\* main goes on: no signal awaits its handler at a wait.
Proceeds == sig = 0 \/ ~AtTurn

\* main's catch: cleanup(err, 1) logs the error and exits with status 1.
Fail(message) ==
  /\ pc' = "exited"
  /\ exitCode' = 1
  /\ logged' = Append(logged, message)

Goto(position) ==
  /\ pc' = position
  /\ UNCHANGED <<exitCode, logged>>

\* A step of main has ended, with or without success.
Step(name, ok) == steps' = Append(steps, <<name, ok>>)

\* api.attachSignalHandlers(process), the first call of main.
AttachSignalHandlers ==
  /\ pc = "boot"
  /\ handlers' = TRUE
  /\ Goto("start")
  /\ UNCHANGED <<envVars, apiVars, localVars, acqVars, ioVars, sig, paused,
                 obsVars>>

LoadConfiguration ==
  /\ pc = "start"
  /\ Proceeds
  /\ LET r == loadConfiguration(fs, opts.config)
     IN /\ Step("config", r.ok)
        /\ IF r.ok
             THEN configData' = r.data /\ Goto("config")
             ELSE UNCHANGED configData /\ Fail(r.message)
  /\ UNCHANGED <<envVars, apiVars, providerModule, providerEffects, inputData,
                 prePrompt, prompt, fullPrompt, acqVars, ioVars, sysVars,
                 stdinRead>>

GetProviderModule ==
  /\ pc = "config"
  /\ Proceeds
  /\ LET r == getProviderModule(fs, configData)
     IN /\ providerEffects' = providerEffects \o r.effects
        /\ providerModule' = r.module
        /\ Step("provider", r.ok)
        /\ IF r.ok THEN Goto("provider") ELSE Fail(r.message)
  /\ UNCHANGED <<envVars, apiVars, configData, inputData, prePrompt, prompt,
                 fullPrompt, acqVars, ioVars, sysVars, stdinRead>>

GetInputData ==
  /\ pc = "provider"
  /\ Proceeds
  /\ LET r == getInputData(fs, opts.file, stdin)
     IN /\ inputData' = r.data
        /\ stdinRead' = r.readStdin
        /\ Step("input", r.ok)
        /\ IF r.ok THEN Goto("input") ELSE Fail(r.message)
  /\ UNCHANGED <<envVars, apiVars, configData, providerModule,
                 providerEffects, prePrompt, prompt, fullPrompt, acqVars,
                 ioVars, sysVars>>

\* const prePrompt = prePromptOption ? loadFile(prePromptOption, 'prompt') : ''
LoadPrePrompt ==
  /\ pc = "input"
  /\ Proceeds
  /\ IF TruthyName(opts.prePrompt)
       THEN LET r == loadFile(fs, opts.prePrompt, "prompt")
            IN /\ prePrompt' = r.content
               /\ Step("prePrompt", r.ok)
               /\ IF r.ok THEN Goto("prePrompt") ELSE Fail(r.message)
       ELSE prePrompt' = <<>> /\ Step("prePrompt", TRUE) /\ Goto("prePrompt")
  /\ UNCHANGED <<envVars, apiVars, configData, providerModule,
                 providerEffects, inputData, prompt, fullPrompt, acqVars,
                 ioVars, sysVars, stdinRead>>

\* getInputFromEditor up to its await: the temp file is created and the
\* editor child is spawned.
StartEditor ==
  /\ editor' = [child |-> "running", tmpFile |-> "exists",
                unlink |-> "none", code |-> -1, warned |-> FALSE]
  /\ started' = Append(started, "editor")
  /\ UNCHANGED <<prompt, lines, acq, steps>>
  /\ Goto("editor")

\* getInteractiveUserPrompt up to its await: the read loop is open.
StartInteractive ==
  /\ started' = Append(started, "interactive")
  /\ UNCHANGED <<prompt, editor, lines, acq, steps>>
  /\ Goto("interactive")

\* The prompt is the literal message (with what the revision puts before
\* it), or stays empty when there is none.
TakeMessage(promptText) ==
  /\ prompt' = promptText
  /\ started' = IF Truthy(opts.message) THEN Append(started, "literal")
                ELSE started
  /\ Step("prompt", TRUE)
  /\ UNCHANGED <<editor, lines, acq>>
  /\ Goto("composed")

\* Where main decides how to get the prompt.
StartPrompt ==
  /\ pc = "prePrompt"
  /\ Proceeds
  /\ IF opts.editor THEN StartEditor
     ELSE IF rev = "main"
       THEN IF mainPromptSource(opts.editor, opts.message, prePrompt)
                 = "interactive"
              THEN StartInteractive
              ELSE TakeMessage(opts.message)
     ELSE IF needsInteractive(opts.editor, opts.message, prePrompt)
       THEN StartInteractive
     ELSE TakeMessage(appendMessage(<<>>, opts.message))
  /\ UNCHANGED <<envVars, apiVars, configData, providerModule,
                 providerEffects, inputData, prePrompt, fullPrompt, ioVars,
                 sysVars, stdinRead>>

\* The editor child's 'exit' event: the handler settles the session's
\* promise from the exit code and the temp file, and then, in its finally,
\* starts deleteTempFile, whose removal of the file ends later.
EditorExit(code, content) ==
  /\ pc = "editor"
  /\ Proceeds
  /\ editor.child = "running"
  /\ acq' = editorExit(code, content)
  /\ editor' = [child |-> "exited", tmpFile |-> "exists",
                unlink |-> "pending", code |-> code, warned |-> FALSE]
  /\ Goto("editorSettled")
  /\ UNCHANGED <<envVars, apiVars, localVars, started, lines, ioVars,
                 sysVars, obsVars>>

\* The editor child's 'error' event: the editor could not be launched.
EditorError ==
  /\ pc = "editor"
  /\ Proceeds
  /\ editor.child = "running"
  /\ acq' = editorError
  /\ editor' = [child |-> "failed", tmpFile |-> "exists",
                unlink |-> "pending", code |-> -1, warned |-> FALSE]
  /\ Goto("editorSettled")
  /\ UNCHANGED <<envVars, apiVars, localVars, started, lines, ioVars,
                 sysVars, obsVars>>

\* deleteTempFile: await tmpFile.cleanup() ends, the temp file is removed.
\* The removal is asynchronous: it ends at any time while the process
\* lives, before or after the code that awaits the session resumes.
DeleteTempFile ==
  /\ Running
  /\ editor.unlink = "pending"
  /\ editor' = [editor EXCEPT !.tmpFile = "deleted", !.unlink = "done"]
  /\ UNCHANGED <<envVars, apiVars, procVars, localVars, started, lines, acq,
                 ioVars, sysVars, obsVars>>

\* A failed removal that is raised as an error of the invocation.
DeleteTempFileFails_escalated ==
  /\ Running
  /\ editor.unlink = "pending"
  /\ editor' = [editor EXCEPT !.unlink = "failed", !.warned = TRUE]
  /\ Fail(<<"Failed to delete temporary file">>)
  /\ UNCHANGED <<envVars, apiVars, localVars, started, lines, acq,
                 ioVars, sysVars, obsVars>>

\* deleteTempFile when tmpFile.cleanup() rejects: the catch logs a warning
\* and the file stays.
DeleteTempFileFails ==
  /\ Running
  /\ editor.unlink = "pending"
  /\ editor' = [editor EXCEPT !.unlink = "failed", !.warned = TRUE]
  /\ UNCHANGED <<envVars, apiVars, procVars, localVars, started, lines, acq,
                 ioVars, sysVars, obsVars>>

\* The awaiting code resumes.  main (pipe-ai.js) takes the text, and a
\* rejection goes to its catch.  getPrompt catches the rejection with
\* cleanup(err.message), which neither logs nor exits, keeps prompt = '',
\* and then appends the message.
ResumeAfterEditor ==
  /\ pc = "editorSettled"
  /\ Proceeds
  /\ Step("prompt", acq.ok)
  /\ IF rev = "main"
       THEN IF acq.ok
              THEN prompt' = acq.value /\ Goto("composed")
                     /\ UNCHANGED started
              ELSE Fail(acq.message) /\ UNCHANGED <<prompt, started>>
       ELSE /\ prompt' = appendMessage(IF acq.ok THEN acq.value ELSE <<>>,
                                       opts.message)
            /\ started' = IF Truthy(opts.message)
                            THEN Append(started, "literal") ELSE started
            /\ Goto("composed")
  /\ UNCHANGED <<envVars, apiVars, configData, providerModule,
                 providerEffects, inputData, prePrompt, fullPrompt, editor,
                 lines, acq, ioVars, sysVars, stdinRead>>

\* rl.on('line'): a line arrives at the read loop.
InteractiveLine(line) ==
  /\ pc = "interactive"
  /\ Proceeds
  /\ Len(lines) < MaxLines
  /\ lines' = Append(lines, line)
  /\ Goto("interactive")
  /\ UNCHANGED <<envVars, apiVars, localVars, started, editor, acq, ioVars,
                 sysVars, obsVars>>

\* Mutant of InteractiveClose: the error of a blank prompt is swallowed and
\* the promise stays pending with the process alive.
InteractiveClose_pending ==
  /\ pc = "interactive"
  /\ Proceeds
  /\ LET r == interactiveClose(lines)
     IN IF r.ok
          THEN acq' = r /\ Goto("interactiveSettled")
          ELSE UNCHANGED <<acq, procVars>>
  /\ UNCHANGED <<envVars, apiVars, localVars, started, editor, lines, ioVars,
                 sysVars, obsVars>>

\* rl.on('close'): end-of-stream.  The handler resolves the promise with the
\* joined lines; for a blank prompt it throws inside the event handler,
\* which no promise catches: the exception is uncaught and ends the process
\* with status 1, the promise still pending.
InteractiveClose ==
  /\ pc = "interactive"
  /\ Proceeds
  /\ LET r == interactiveClose(lines)
     IN IF r.ok
          THEN acq' = r /\ Goto("interactiveSettled") /\ UNCHANGED steps
          ELSE /\ UNCHANGED acq
               /\ Step("prompt", FALSE)
               /\ pc' = "exited"
               /\ exitCode' = 1
               /\ logged' = Append(logged, <<"Uncaught ">> \o r.message)
  /\ UNCHANGED <<envVars, apiVars, localVars, started, editor, lines, ioVars,
                 sysVars, stdinRead>>

ResumeAfterInteractive ==
  /\ pc = "interactiveSettled"
  /\ Proceeds
  /\ prompt' = acq.value
  /\ Step("prompt", TRUE)
  /\ Goto("composed")
  /\ UNCHANGED <<envVars, apiVars, configData, providerModule,
                 providerEffects, inputData, prePrompt, fullPrompt, acqVars,
                 ioVars, sysVars, stdinRead>>

\* Combine pre-prompt and prompt and call the provider's getAIResponse.  The
\* revision "pause" calls process.stdin.pause() first.
CallProvider ==
  /\ pc = "composed"
  /\ Proceeds
  /\ paused' = IF rev = "pause" THEN TRUE ELSE paused
  /\ fullPrompt' = IF rev = "main" THEN joinPrompt(prePrompt, prompt)
                   ELSE joinNonEmpty(prePrompt, prompt)
  /\ aiCalls' = Append(aiCalls, [provider |-> providerModule,
                                 inputData |-> inputData,
                                 prompt |-> fullPrompt'])
  /\ Goto("awaitReply")
  /\ UNCHANGED <<envVars, apiVars, configData, providerModule,
                 providerEffects, inputData, prePrompt, prompt, acqVars,
                 reply, output, sig, handlers, obsVars>>

\* The reply arrives; the revision "pause" calls process.stdin.resume().
ProviderReplies(text) ==
  /\ pc = "awaitReply"
  /\ Proceeds
  /\ reply' = text
  /\ paused' = IF rev = "pause" THEN FALSE ELSE paused
  /\ Step("request", TRUE)
  /\ Goto("reply")
  /\ UNCHANGED <<envVars, apiVars, localVars, acqVars, aiCalls, output, sig,
                 handlers, stdinRead>>

\* A rejected request that is tried again.
ProviderFails_retried ==
  /\ pc = "awaitReply"
  /\ Proceeds
  /\ Step("request", FALSE)
  /\ Goto("composed")
  /\ UNCHANGED <<envVars, apiVars, localVars, acqVars, ioVars, sysVars,
                 stdinRead>>

\* The request is rejected: withSpinner rethrows and main's catch exits.
ProviderFails ==
  /\ pc = "awaitReply"
  /\ Proceeds
  /\ Step("request", FALSE)
  /\ Fail(<<"Request failed">>)
  /\ UNCHANGED <<envVars, apiVars, localVars, acqVars, ioVars, sysVars,
                 stdinRead>>

OutputResult ==
  /\ pc = "reply"
  /\ Proceeds
  /\ output' = reply
  /\ Step("output", TRUE)
  /\ Goto("output")
  /\ UNCHANGED <<envVars, apiVars, localVars, acqVars, aiCalls, reply,
                 sysVars, stdinRead>>

\* finally: cleanup() returns; main has ended and the process exits with 0
\* once nothing is left to wait for.
Finish ==
  /\ pc = "output"
  /\ Proceeds
  /\ editor.unlink # "pending"
  /\ pc' = "done"
  /\ exitCode' = 0
  /\ UNCHANGED <<envVars, apiVars, logged, localVars, acqVars, ioVars,
                 sysVars, obsVars>>

Next ==
  \/ AttachSignalHandlers
  \/ LoadConfiguration
  \/ GetProviderModule
  \/ GetInputData
  \/ LoadPrePrompt
  \/ StartPrompt
  \/ \E code \in EditorExitCodes, content \in EditorContents :
       EditorExit(code, content)
  \/ EditorError
  \/ DeleteTempFile
  \/ DeleteTempFileFails
  \/ ResumeAfterEditor
  \/ \E line \in TypedLines : InteractiveLine(line)
  \/ InteractiveClose
  \/ ResumeAfterInteractive
  \/ CallProvider
  \/ \E text \in Replies : ProviderReplies(text)
  \/ ProviderFails
  \/ OutputResult
  \/ Finish

Spec == Init /\ [][Next]_vars

(***************************************************************************)
(* The main sequence with signals: SIGINT or SIGTERM is delivered at any   *)
(* time while the process runs, in the revisions that call                 *)
(* attachSignalHandlers.                                                   *)
(***************************************************************************)
signalMessage(s) ==
  IF s = SIGINT THEN <<"Process interrupted by SIGINT (Ctrl+C).">>
  ELSE <<"Process terminated by SIGTERM.">>

\* The operating system delivers a signal.  Without a handler the process
\* is terminated by it.
DeliverSignal(s) ==
  /\ Running
  /\ sig = 0
  /\ sig' = s
  /\ IF handlers THEN UNCHANGED procVars
     ELSE pc' = "killed" /\ UNCHANGED <<exitCode, logged>>
  /\ UNCHANGED <<envVars, apiVars, localVars, acqVars, ioVars, handlers,
                 paused, obsVars>>

\* The handler runs: cleanup(new Error(...), 128 + signal) logs the error
\* and calls process.exit.
HandleSignal ==
  /\ Running
  /\ handlers
  /\ sig # 0
  /\ AtTurn
  /\ pc' = "exited"
  /\ exitCode' = 128 + sig
  /\ logged' = Append(logged, signalMessage(sig))
  /\ UNCHANGED <<envVars, apiVars, localVars, acqVars, ioVars, sysVars,
                 obsVars>>

InitSignal == Init /\ rev \in {"main", "getPrompt"}

NextSignal ==
  \/ Next
  \/ \E s \in Signals : DeliverSignal(s)
  \/ HandleSignal

SpecSignal == InitSignal /\ [][NextSignal]_vars

(***************************************************************************)
(* Direct calls of cleanup, one after another while the process runs, with *)
(* the errors and exit codes of its callers: no argument (main's finally), *)
(* a message string with the default code (getPrompt's catch), an Error    *)
(* with 1 (main's catch) and with 128 + N (the signal handlers).           *)
(***************************************************************************)
MaxCleanupCalls == 3

CleanupErrors ==
  {NoError, StringError(<<"Editor exited with code 2">>),
   ErrorInstance(<<"Request failed">>),
   ErrorInstance(signalMessage(SIGINT))}
CleanupExitCodes == {0, 1, 128 + SIGINT, 128 + SIGTERM}

InitCleanup == InitEditor

CallCleanup(err, code) ==
  /\ pc = "idle"
  /\ cleanupCall.count < MaxCleanupCalls
  /\ cleanupCall' = [op |-> "cleanup", err |-> err, exitCode |-> code,
                     before |-> logged, count |-> cleanupCall.count + 1]
  /\ logged' = logged \o cleanup(err, code).logged
  /\ IF cleanup(err, code).exits
       THEN pc' = "exited" /\ exitCode' = code
       ELSE UNCHANGED <<pc, exitCode>>
  /\ UNCHANGED <<envVars, fileCall, providerCall, editorCall, localVars,
                 acqVars, ioVars, sysVars, obsVars>>

NextCleanup ==
  \E err \in CleanupErrors, code \in CleanupExitCodes : CallCleanup(err, code)

SpecCleanup == InitCleanup /\ [][NextCleanup]_vars

(***************************************************************************)
(* The main sequence with signals and with fairness: main's own code runs  *)
(* on, every event main waits for (a read, the import, the editor child's  *)
(* exit or launch error, the read loop's end-of-stream, the provider's     *)
(* reply or failure, the temp file's removal) eventually occurs, and a     *)
(* signal handler whose turn has come eventually runs.  Signals are        *)
(* delivered in the revisions whose handlers are in the source.            *)
(***************************************************************************)
\* The file systems of the invocations followed to their end: no
\* configuration, one without a provider key or a complete one in the user
\* directory, with or without the pre-prompt file.
LiveFileSystems ==
  {fsys \in MainFileSystems :
     /\ fsys[installPath("config", "config")] = Absent
     /\ fsys[installPath(PromptName, "prompt")] = Absent
     /\ fsys[userPath("config", "config")] # File(GeminiConfig)}

\* Before the invocation: the shell has not yet started the process.
InitLive ==
  /\ fs \in {f \in MainFileSystems : \A p \in DOMAIN f \ DOMAIN ProviderFiles :
                                        f[p] = IF p = directPath(InputFile)
                                                 THEN File(<<"d">>) ELSE Absent}
  /\ fileCall = NoFileCall
  /\ providerCall = NoProviderCall
  /\ editorCall = NoEditorCall
  /\ cleanupCall = NoCleanupCall
  /\ rev = "main"
  /\ opts = NoOptions
  /\ stdin = [isTTY |-> TRUE, chunks |-> <<>>]
  /\ MainAt("idle")

\* The shell starts pipe-ai: the files found, the revision of main, the
\* command line and the standard input of this invocation.
Launch(fsys, revision, options, stdinStream) ==
  /\ pc = "idle"
  /\ fs' = fsys
  /\ rev' = revision
  /\ opts' = options
  /\ stdin' = stdinStream
  /\ Goto("boot")
  /\ UNCHANGED <<apiVars, localVars, acqVars, ioVars, sysVars, obsVars>>

NextLive ==
  \/ \E fsys \in LiveFileSystems, revision \in Revisions, options \in Options,
        stdinStream \in Stdins : Launch(fsys, revision, options, stdinStream)
  \/ Next
  \/ \E s \in Signals : rev \in {"main", "getPrompt"} /\ DeliverSignal(s)
  \/ HandleSignal

SpecLive ==
  InitLive /\ [][NextLive]_vars /\ WF_vars(Next) /\ WF_vars(HandleSignal)

(***************************************************************************)
(* Claims about the prompt composer and the main sequence, checked under   *)
(* Spec.                                                                   *)
(***************************************************************************)
\* main has the prompt and has not yet ended.
Composed == pc \in {"composed", "awaitReply", "reply", "output", "done"}

\* The acquisition strategy of the decision table: editor session if
\* useEditor; else the literal message if present; else interactive capture
\* if no pre-prompt is present; else none.
TableSource ==
  IF opts.editor THEN "editor"
  ELSE IF opts.message # <<>> THEN "literal"
  ELSE IF prePrompt = <<>> THEN "interactive"
  ELSE "none"

\* C4: for each combination of (useEditor, literal message present,
\* pre-prompt present) the composer uses exactly the one prompt source the
\* decision table names, and no second one.
C4_ExactlyOneStrategy ==
  Composed =>
    started = IF TableSource = "none" THEN <<>> ELSE <<TableSource>>

\* C5: when useEditor is set, the prompt the composer returns is exactly
\* the text the editor session produced; a literal message given with
\* --editor is not appended.
C5_EditorTextOnly ==
  (Composed /\ opts.editor /\ acq.ok) => prompt = acq.value

\* C6: a non-empty literal message given without --editor is the prompt,
\* character for character, and without a pre-prompt it is the payload
\* handed to the provider.
C6_LiteralMessageUnchanged ==
  (Composed /\ ~opts.editor /\ opts.message # <<>>)
  => /\ prompt = opts.message
     /\ (pc # "composed" /\ prePrompt = <<>>)
          => aiCalls[Len(aiCalls)].prompt = opts.message

\* C7: the final payload is prePrompt, NL, prompt when both parts are
\* non-empty, the pre-prompt alone when the prompt is empty and the prompt
\* alone when the pre-prompt is empty.
C7_NewlineOnlyBetweenNonEmptyParts ==
  (Composed /\ pc # "composed")
  => fullPrompt = IF prePrompt # <<>> /\ prompt # <<>>
                    THEN prePrompt \o <<NL>> \o prompt
                  ELSE IF prePrompt # <<>> THEN prePrompt
                  ELSE prompt

\* C8: getAIResponse is never called with an empty payload.
C8_NoEmptyPayload ==
  \A i \in 1..Len(aiCalls) : aiCalls[i].prompt # <<>>

\* C10: when config.provider is non-empty and no provider module of that
\* name exists, the invocation ends in an error that names the provider,
\* having imported no module and called no getAIResponse.
C10_UnknownProviderFails ==
  ( /\ pc \notin {"idle", "start", "config"}
    /\ TruthyName(configData.provider)
    /\ ~existsSync(fs, providerModulePath(configData.provider)) )
  => /\ pc = "exited"
     /\ exitCode = 1
     /\ logged # <<>>
     /\ Mentions(logged[Len(logged)], configData.provider)
     /\ providerModule = NoModule
     /\ \A i \in 1..Len(providerEffects) : providerEffects[i].op # "import"
     /\ aiCalls = <<>>

\* The configuration named the provider gemini, which has no module, and the
\* invocation has ended.
C10_Witness ==
  /\ pc = "exited"
  /\ configData.provider = "gemini"
  /\ providerEffects = <<Probe(providerModulePath("gemini"))>>
  /\ logged = << <<"Provider module '", "gemini", "' not found.">> >>

(***************************************************************************)
(* Claims about the editor session, the interactive capture and the        *)
(* process lifecycle.                                                      *)
(***************************************************************************)
\* The editor session was started and the code awaiting it has resumed.
EditorReturned ==
  /\ started # <<>>
  /\ started[1] = "editor"
  /\ pc \notin {"editor", "editorSettled"}

\* C11: once the editor acquisition call has returned to its caller, with
\* text or with an error, the temp file it created no longer exists.
C11_TempFileGoneOnReturn ==
  EditorReturned => editor.tmpFile = "deleted"

\* C12: when the editor child exits with a non-zero status, the acquisition
\* raises an editor-exit error, the temp file is absent afterwards, the
\* provider is not called and the process exits with status 1.
C12_NonZeroEditorExitFails ==
  (EditorReturned /\ editor.child = "exited" /\ editor.code # 0)
  => /\ ~acq.ok
     /\ Mentions(acq.message, "Editor exited with code ")
     /\ editor.tmpFile = "deleted"
     /\ aiCalls = <<>>
     /\ pc = "exited"
     /\ exitCode = 1

\* A line of the text has '#' as its first non-whitespace character.
HasCommentLine(text) ==
  LET ls == Split(text, NL)
  IN \E i \in 1..Len(ls) : StartsWith(TrimStart(ls[i]), "#")

\* C13: for every content of the temp file, the text an editor function
\* returns has no line whose first non-whitespace character is '#'.
C13_NoCommentLineReturned ==
  ( /\ editorCall.op \in {"readTempFile", "getPromptFromEditor"}
    /\ editorCall.res.settled.ok )
  => ~HasCommentLine(editorCall.res.settled.value)

\* C14: when the read loop closes on blank input, the promise of
\* getInteractiveUserPrompt is rejected with an empty-prompt error; it is
\* neither resolved nor left pending.
C14_BlankPromptRejects ==
  ( /\ started = <<"interactive">>
    /\ pc # "interactive"
    /\ Trim(Join(lines, <<NL>>)) = <<>> )
  => /\ ~acq.ok
     /\ acq.message # <<>>

\* C15: with the handlers attached, a delivered SIGINT or SIGTERM makes the
\* process exit with 128 + the signal number, never with 0 or 1.
C15_SignalExitCode ==
  (handlers /\ sig # 0 /\ pc \in {"exited", "done"})
  => exitCode = 128 + sig

\* Every step that has ended succeeded.
AllSucceeded == \A i \in 1..Len(steps) : steps[i][2]

\* C16: without signals the process exits with 0 exactly when every step
\* succeeded and the reply was emitted; a step that raises an error is the
\* last step run and the process exits with 1.
C16_ExitStatusDiscipline ==
  /\ exitCode = 0 <=> /\ pc = "done"
                      /\ AllSucceeded
                      /\ steps[Len(steps)] = <<"output", TRUE>>
                      /\ output = reply
  /\ \A i \in 1..Len(steps) :
       ~steps[i][2] => /\ i = Len(steps)
                       /\ pc = "exited"
                       /\ exitCode = 1

\* C17: terminal input is paused while the editor child runs or the read
\* loop is open, and is not left paused when the process has ended.
C17_TerminalPausedAndResumed ==
  /\ pc \in {"editor", "interactive"} => paused
  /\ pc \in {"exited", "done"} => ~paused

\* main has run getInputData.
InputStepDone == Len(steps) >= 3

\* C18: with a file path getInputData returns the file's content and does
\* not read standard input; without one and with piped standard input it
\* returns the chunks concatenated in order; without one and with a
\* terminal it raises the no-input error and returns no data.
C18_InputSource ==
  InputStepDone =>
    IF TruthyName(opts.file)
      THEN /\ steps[3] = <<"input", TRUE>>
           /\ inputData = fs[<<Cwd, opts.file>>].content
           /\ ~stdinRead
    ELSE IF ~stdin.isTTY
      THEN /\ steps[3] = <<"input", TRUE>>
           /\ inputData = stdin.chunks[1] \o stdin.chunks[2]
           /\ stdinRead
    ELSE /\ steps[3] = <<"input", FALSE>>
         /\ inputData = <<>>
         /\ ~stdinRead
         /\ pc = "exited"
         /\ logged[Len(logged)] = noInputMessage
         /\ aiCalls = <<>>

\* A file path is given while standard input is piped: the file was read.
C18_Witness ==
  /\ InputStepDone
  /\ opts.file = InputFile
  /\ ~stdin.isTTY
  /\ inputData = <<"d">>
  /\ ~stdinRead

\* The steps that precede the provider request, each ended with success.
StepsBeforeRequest ==
  << <<"config", TRUE>>, <<"provider", TRUE>>, <<"input", TRUE>>,
     <<"prePrompt", TRUE>>, <<"prompt", TRUE>> >>

\* C19: getAIResponse is called only after configuration load, provider
\* resolution, input read, pre-prompt load and prompt acquisition have each
\* ended with success, in that order, never while the editor child runs or
\* the read loop is open; output happens only after the reply arrived.
C19_StepsInOrder ==
  /\ aiCalls # <<>>
       => /\ Len(steps) >= 5
          /\ SubSeq(steps, 1, 5) = StepsBeforeRequest
          /\ editor.child # "running"
          /\ pc \notin {"editor", "editorSettled", "interactive",
                        "interactiveSettled"}
  /\ output # <<>>
       => /\ Len(steps) >= 6
          /\ steps[6] = <<"request", TRUE>>
          /\ output = reply

\* C20: getAIResponse is called at most once in an invocation; a failed
\* request is not tried again and ends the invocation with status 1.
C20_SingleAttempt ==
  /\ Len(aiCalls) <= 1
  /\ \A i \in 1..Len(steps) :
       steps[i] = <<"request", FALSE>>
         => /\ Len(aiCalls) = 1
            /\ pc = "exited"
            /\ exitCode = 1

\* The one request of the invocation failed and the process has ended.
C20_Witness ==
  /\ pc = "exited"
  /\ steps # <<>>
  /\ steps[Len(steps)] = <<"request", FALSE>>
  /\ Len(aiCalls) = 1
  /\ logged[Len(logged)] = <<"Request failed">>

\* C21: when the process has exited, with whatever exit code, the temp file
\* an editor session of the invocation created no longer exists.
C21_TempFileGoneAtExit ==
  (pc \in {"exited", "done"} /\ editor.tmpFile # "none")
  => editor.tmpFile = "deleted"

\* C22: a failure to delete the temp file changes neither the outcome of
\* the editor acquisition nor how the process ends; it is only logged as a
\* warning.
C22_DeletionFailureOnlyWarns ==
  [][(editor.unlink = "pending" /\ editor'.unlink = "failed")
       => /\ editor'.warned
          /\ UNCHANGED <<acq, pc, exitCode, logged, prompt, aiCalls>>]_vars

\* The removal of the temp file failed, and the invocation has ended with
\* success on the prompt the editor session resolved with.
C22_Witness ==
  /\ editor.unlink = "failed"
  /\ editor.warned
  /\ acq.ok
  /\ prompt = acq.value
  /\ pc = "done"
  /\ exitCode = 0

\* Nothing remains of the content once comment lines are stripped and the
\* rest is trimmed: every line is blank or has '#' as its first
\* non-whitespace character.
NothingRemains(content) ==
  LET ls == Split(content, NL)
  IN \A i \in 1..Len(ls) :
       Trim(ls[i]) = <<>> \/ StartsWith(TrimStart(ls[i]), "#")

\* C23: when the editor exited with status 0 and nothing remains in the
\* temp file, the editor strategy fails with an empty-prompt error; it never
\* returns an empty string.
C23_EmptyEditorTextFails ==
  editorCall.op = "readTempFile"
  => /\ NothingRemains(editorCall.content)
          => /\ ~editorCall.res.settled.ok
             /\ editorCall.res.settled.message
                  = <<"No input found in the editor.">>
     /\ editorCall.res.settled.ok => editorCall.res.settled.value # <<>>

\* The temp file holds a blank line and a comment line, as the untouched
\* template does, and the read has failed.
C23_Witness ==
  /\ editorCall.op = "readTempFile"
  /\ editorCall.content = <<NL, "#", "a">>
  /\ ~editorCall.res.settled.ok

\* C28: the editor launched is $VISUAL if set, else $EDITOR if set, else
\* the platform default (notepad on win32, vi elsewhere); no other variable
\* overrides $VISUAL.
C28_EditorPrecedence ==
  editorCall.op \in {"getDefaultEditor", "promptEditor"}
  => editorCall.res =
       IF TruthyName(editorCall.env.VISUAL) THEN editorCall.env.VISUAL
       ELSE IF TruthyName(editorCall.env.EDITOR) THEN editorCall.env.EDITOR
       ELSE IF editorCall.platform = "win32" THEN "notepad"
       ELSE "vi"

\* What the first event of a session determines: the rejection of a
\* non-zero exit or of a launch error, or what readTempFile yields.
FirstEventOutcome ==
  LET first == editorCall.events[1]
  IN IF first[1] = "error" THEN editorError
     ELSE editorExit(first[2], editorCall.content)

\* C29: for every sequence of 'error' and 'exit' events of one editor
\* child, the promise of handleEditorProcess settles exactly once with the
\* outcome the first event handled determines, and a failing cleanup
\* attempt produces only a warning.
C29_FirstEventSettles ==
  (InSession /\ editorCall.events # <<>> /\ ~editorCall.reading)
  => /\ editorCall.settled # Pending
     /\ editorCall.settled = FirstEventOutcome

\* C24: for a kind other than "config" and "prompt", loadFile fails with
\* the unsupported-kind error before it probes or reads any file, even when
\* the identifier is a path to an existing regular file.
C24_UnsupportedKindFailsFirst ==
  (fileCall.op = "loadFile" /\ fileCall.type \notin {"config", "prompt"})
  => /\ ~fileCall.res.ok
     /\ Mentions(fileCall.res.message, "Unsupported file type: '")
     /\ Mentions(fileCall.res.message, fileCall.type)
     /\ fileCall.res.probes = <<>>

\* What the file system holds at a path.
KindAt(p) == IF p \in DOMAIN fs THEN fs[p].kind ELSE "absent"

\* C25: loadFile only selects regular files: a directory at
\* <userDir>/<identifier><ext> is passed over for the regular file at
\* <installDir>/<identifier><ext>, and an identifier that names a directory
\* is not read but looked up in the search directories.
C25_OnlyRegularFiles ==
  \A t \in DOMAIN FILE_TYPES :
    LoadFileCalled(t) =>
      /\ fileCall.res.ok => KindAt(fileCall.res.path) = "file"
      /\ ( /\ KindAt(<<Cwd, fileCall.identifier>>) # "file"
           /\ KindAt(userPath(fileCall.identifier, t)) = "dir"
           /\ KindAt(installPath(fileCall.identifier, t)) = "file" )
         => /\ fileCall.res.ok
            /\ fileCall.res.path = installPath(fileCall.identifier, t)
            /\ fileCall.res.content
                 = fs[installPath(fileCall.identifier, t)].content
      /\ KindAt(<<Cwd, fileCall.identifier>>) = "dir"
         => /\ fileCall.res.path # <<Cwd, fileCall.identifier>>
            /\ Len(fileCall.res.probes) > 1
            /\ fileCall.res.probes[2] = userPath(fileCall.identifier, t)

\* The identifier names a directory, the user directory holds a directory
\* of the file's name, and the install directory's file was returned.
C25_Witness ==
  /\ LoadFileCalled("prompt")
  /\ KindAt(<<Cwd, fileCall.identifier>>) = "dir"
  /\ KindAt(userPath(fileCall.identifier, "prompt")) = "dir"
  /\ KindAt(installPath(fileCall.identifier, "prompt")) = "file"
  /\ fileCall.res.ok
  /\ fileCall.res.content = <<"x">>

\* C26: the interactive capture resolves only at end-of-stream, never while
\* lines are still being received, and its value is every line received
\* before the close, in the order received, joined with one newline each.
C26_InteractiveValueIsAllLines ==
  /\ pc = "interactive" => acq = NotSettled
  /\ pc = "interactiveSettled"
       => /\ acq.ok
          /\ Split(acq.value, NL) = lines
          /\ Len(acq.value) = Len(lines) - 1
                              + Len(Join(lines, <<>>))

\* Two lines were typed before end-of-stream and the capture resolved.
C26_Witness ==
  /\ pc = "interactiveSettled"
  /\ Len(lines) = 2
  /\ lines[1] # lines[2]
  /\ acq.ok

\* The process has ended: main returned and the event loop emptied (0),
\* process.exit was called (1 or 128 + N), or the signal itself ended a
\* process that had no handler yet (reported as 128 + N).
Terminated ==
  \/ pc = "done" /\ exitCode = 0
  \/ pc = "exited" /\ exitCode \in {1, 128 + SIGINT, 128 + SIGTERM}
  \/ pc = "killed" /\ sig \in Signals

====
